---- MODULE Spec2Model ----
(***************************************************************************)
(* Model of tinyio's runtime-facing network adapter (netdev.go).           *)
(*                                                                         *)
(* netdeverWrapper holds one Netdever and implements the primitive-typed   *)
(* interface `dev` of the host runtime's net package.  Every method        *)
(* converts its arguments, makes one call on the wrapped driver and        *)
(* converts the result back.  The driver is an external collaborator: its  *)
(* return values are chosen nondeterministically.  Several goroutines may  *)
(* be inside the adapter at once; a call is split at the point where the   *)
(* driver has been invoked and has not yet returned.                       *)
(***************************************************************************)
EXTENDS Integers, Sequences, FiniteSets, TLC

VARIABLES
    useLog,     \* drivers handed to UseNetdever, in call order
    hookLog,    \* adapters received by the registration hook, in call order
    call,       \* per goroutine: the adapter call it is in, or its result
    held        \* descriptors the runtime got from Socket, with the driver's handle

vars == <<useLog, hookLog, call, held>>

----------------------------------------------------------------------------
\* Bounds of the model

\* Number of UseNetdever calls explored.
MaxUse == 1

\* Width in bits of int and uintptr.  Go fixes both per build (32 or 64 on
\* the targets that carry a network device); the model keeps the width
\* small enough for TLC's integers while leaving room for every
\* uint8 and uint16 value.
WordBits == 20

----------------------------------------------------------------------------
\* Integer types

Pow2(n) == 2 ^ n

MaxInt == Pow2(WordBits - 1) - 1
MinInt == -Pow2(WordBits - 1)

\* Conversion of an integer value to a signed int (two's complement wrap).
ToInt(x) ==
    LET m == x % Pow2(WordBits)
    IN  IF m >= Pow2(WordBits - 1) THEN m - Pow2(WordBits) ELSE m

\* type AddressFamily int, SockType int, Protocol int, SockFlags int,
\* SockOpt int, SockOptLevel int, Sockfd int: the conversion T(x).
AddressFamily(x) == ToInt(x)

\* The conversion made through an 8-bit signed type (mutation of SockType).
SockTypeSigned8(x) ==
    LET m == x % 256
    IN  IF m >= 128 THEN m - 256 ELSE m

SockType(x) == ToInt(x)

Protocol(x) == ToInt(x)

SockFlags(x) == ToInt(x)

SockOpt(x) == ToInt(x)

SockOptLevel(x) == ToInt(x)

Sockfd(x) == ToInt(x)

\* A descriptor conversion that loses the top bit (mutation of uintptr).
uintptrNarrow(x) == x % Pow2(WordBits - 1)

\* uintptr(fde): conversion of a signed int to the unsigned word.
uintptr(x) == x % Pow2(WordBits)

----------------------------------------------------------------------------
\* Values crossing the boundary

Goroutines == {"g1", "g2"}

\* Driver instances that exist in the program; NilDev is the nil interface.
Drivers == {"devA", "devB"}
NilDev == "nil"

\* error values a driver returns; NoErr is the nil error.
NoErr == "nil"
Errors == {NoErr, "EINVAL", "ETIMEDOUT"}

\* net.Addr as the runtime passes it: an IPv4 address and a port.
NetAddrs ==
    { [ip |-> <<192, 168, 1, 7>>, port |-> 8080],
      [ip |-> <<10, 0, 0, 255>>, port |-> 65535] }

\* type SockAddr struct { port [2]byte; ip [4]byte }
SockAddr(port, ip) == [port |-> port, ip |-> ip]

\* Peer addresses a driver learns when it accepts a connection.
DriverPeers ==
    { SockAddr(<<31, 144>>, <<192, 168, 1, 7>>),
      SockAddr(<<255, 255>>, <<10, 0, 0, 255>>) }

\* Handles a driver's Socket returns.
DriverHandles == {5, -1}

\* Argument samples of the runtime's calls.
SocketInputs ==
    { [family |-> 2, sockType |-> 1, protocol |-> 0],
      [family |-> -7, sockType |-> 255, protocol |-> MaxInt] }
Backlogs == {0, 4}
SendInputs ==
    { [buf |-> <<>>, flags |-> 0, timeout |-> 0],
      [buf |-> <<104, 105>>, flags |-> 65535, timeout |-> 5000] }
OptInputs ==
    { [level |-> 1, opt |-> 2, optionValue |-> "int(1)"],
      [level |-> -1, opt |-> MaxInt, optionValue |-> "struct{keepalive}"] }
HostNames == {"example.com", "10.0.0.1"}

\* Descriptors the runtime passes: 0 or one it got from Socket.
Descriptors == {0} \cup {p.fd : p \in held}

----------------------------------------------------------------------------
\* Registration

\* A wrapper built without its driver (mutation of netdeverWrapper).
netdeverWrapperZero(dev) == [Netdever |-> NilDev]

\* netdeverWrapper{Netdever: dev}
netdeverWrapper(dev) == [Netdever |-> dev]

\* The registration hook (linked to the runtime's net.useDev): an opaque
\* sink that receives the adapter.
UseNetdevDirect(d) == hookLog' = Append(hookLog, d)

UseNetdever(dev) ==
    /\ Len(useLog) < MaxUse
    /\ useLog' = Append(useLog, dev)
    /\ UseNetdevDirect(netdeverWrapper(dev))
    /\ UNCHANGED <<call, held>>

\* The adapter the runtime calls: the one most recently registered.
Published == hookLog[Len(hookLog)]

----------------------------------------------------------------------------
\* netAddrToSockAddr, as the source defines it: the zero SockAddr.
netAddrToSockAddr(addr) == SockAddr(<<0, 0>>, <<0, 0, 0, 0>>)

\* What the driver is called with, per adapter method (the argument
\* expressions of each forwarding call).
SocketArgs(family, sockType, protocol) ==
    [family |-> AddressFamily(family), sockType |-> SockType(sockType),
     protocol |-> Protocol(protocol)]

BindArgs(sockfd, addr) ==
    [sockfd |-> Sockfd(sockfd), addr |-> netAddrToSockAddr(addr)]

ConnectArgs(sockfd, servaddr) ==
    [sockfd |-> Sockfd(sockfd), addr |-> netAddrToSockAddr(servaddr)]

ListenArgs(sockfd, backlog) ==
    [sockfd |-> Sockfd(sockfd), backlog |-> backlog]

AcceptArgs(sockfd, peer) ==
    [sockfd |-> Sockfd(sockfd), addr |-> netAddrToSockAddr(peer)]

SendArgs(sockfd, buf, flags, timeout) ==
    [sockfd |-> Sockfd(sockfd), buf |-> buf, flags |-> SockFlags(flags),
     timeout |-> timeout]

RecvArgs(sockfd, buf, flags, timeout) ==
    [sockfd |-> Sockfd(sockfd), buf |-> buf, flags |-> SockFlags(flags),
     timeout |-> timeout]

CloseArgs(sockfd) == [sockfd |-> Sockfd(sockfd)]

\* Level and option name exchanged (mutation of SetSockOptArgs).
SetSockOptArgsSwapped(sockfd, level, opt, optionValue) ==
    [sockfd |-> Sockfd(sockfd), level |-> SockOptLevel(opt),
     opt |-> SockOpt(level), optionValue |-> optionValue]

SetSockOptArgs(sockfd, level, opt, optionValue) ==
    [sockfd |-> Sockfd(sockfd), level |-> SockOptLevel(level),
     opt |-> SockOpt(opt), optionValue |-> optionValue]

\* What the adapter returns, per method, from what the driver returned.
SocketResult(dret) == [fd |-> uintptr(dret.fd), err |-> dret.err]

\* A descriptor invented on success (mutation of AcceptResult).
AcceptResultNewFd(dret) ==
    [fd |-> IF dret.err = NoErr THEN 1 ELSE 0, err |-> dret.err]

AcceptResult(dret) == [fd |-> 0, err |-> dret.err]

\* The driver's error replaced by another (mutation of ErrResult).
ErrResultWrapped(dret) ==
    [err |-> IF dret.err = NoErr THEN NoErr ELSE "wrapped"]

\* Bind, Connect, Listen, Close, SetSockOpt: return the driver's error.
ErrResult(dret) == [err |-> dret.err]

\* Send, Recv: return the driver's count and error.
CountResult(dret) == [n |-> dret.n, err |-> dret.err]

\* Methods promoted from the embedded Netdever: the driver's own result.
PromotedResult(dret) == dret

SocketOps ==
    {"Socket", "Bind", "Connect", "Listen", "Accept", "Send", "Recv",
     "Close", "SetSockOpt"}

DeviceOps ==
    {"NetConnect", "NetDisconnect", "GetHostByName", "GetHardwareAddr",
     "GetIPAddr"}

AdapterResult(op, dret) ==
    CASE op = "Socket" -> SocketResult(dret)
      [] op = "Accept" -> AcceptResult(dret)
      [] op \in {"Send", "Recv"} -> CountResult(dret)
      [] op \in {"Bind", "Connect", "Listen", "Close", "SetSockOpt"} ->
            ErrResult(dret)
      [] OTHER -> PromotedResult(dret)

\* What a driver may return from each operation of the Netdever contract.
DriverOutcomes(op) ==
    CASE op = "Socket" -> [fd : DriverHandles, err : Errors]
      [] op = "Accept" -> [peer : DriverPeers, err : Errors]
      [] op \in {"Send", "Recv"} -> [n : {0, 2}, err : Errors]
      [] op = "NetDisconnect" -> {[none |-> TRUE]}
      [] op = "GetHostByName" ->
            {[ip |-> <<10, 0, 0, 1>>, err |-> NoErr],
             [ip |-> <<>>, err |-> "EINVAL"]}
      [] op = "GetHardwareAddr" ->
            {[mac |-> <<2, 0, 0, 0, 0, 1>>, err |-> NoErr],
             [mac |-> <<>>, err |-> "EINVAL"]}
      [] op = "GetIPAddr" ->
            {[ip |-> <<192, 168, 1, 7>>, err |-> NoErr],
             [ip |-> <<>>, err |-> "EINVAL"]}
      [] OTHER -> [err : Errors]

----------------------------------------------------------------------------
\* Calls

Idle == [pc |-> "idle"]

\* A goroutine of the runtime can enter the adapter once one is published
\* and it is not inside a call.
CanCall(g) == Len(hookLog) > 0 /\ call[g].pc # "inDriver"

\* The driver called a second time (mutation of DriverCalls).
DriverCallsTwice(w, op, dargs) ==
    <<[dev |-> w.Netdever, op |-> op, args |-> dargs],
      [dev |-> w.Netdever, op |-> op, args |-> dargs]>>

\* The driver calls one adapter method makes: w.Netdever.<op>(dargs).
DriverCalls(w, op, dargs) ==
    <<[dev |-> w.Netdever, op |-> op, args |-> dargs]>>

\* Goroutine g enters method op of the published adapter with args; the
\* method converts them and is now inside the driver.
Invoke(g, op, args, dargs) ==
    /\ CanCall(g)
    /\ call' = [call EXCEPT ![g] =
                  [pc |-> "inDriver", w |-> Published, op |-> op,
                   args |-> args, dcalls |-> DriverCalls(Published, op, dargs)]]
    /\ UNCHANGED <<useLog, hookLog, held>>

Socket(g, family, sockType, protocol) ==
    Invoke(g, "Socket",
           [family |-> family, sockType |-> sockType, protocol |-> protocol],
           SocketArgs(family, sockType, protocol))

Bind(g, sockfd, addr) ==
    Invoke(g, "Bind", [sockfd |-> sockfd, addr |-> addr], BindArgs(sockfd, addr))

Connect(g, sockfd, servaddr) ==
    Invoke(g, "Connect", [sockfd |-> sockfd, addr |-> servaddr],
           ConnectArgs(sockfd, servaddr))

Listen(g, sockfd, backlog) ==
    Invoke(g, "Listen", [sockfd |-> sockfd, backlog |-> backlog],
           ListenArgs(sockfd, backlog))

Accept(g, sockfd, peer) ==
    Invoke(g, "Accept", [sockfd |-> sockfd, addr |-> peer],
           AcceptArgs(sockfd, peer))

Send(g, sockfd, buf, flags, timeout) ==
    Invoke(g, "Send",
           [sockfd |-> sockfd, buf |-> buf, flags |-> flags, timeout |-> timeout],
           SendArgs(sockfd, buf, flags, timeout))

Recv(g, sockfd, buf, flags, timeout) ==
    Invoke(g, "Recv",
           [sockfd |-> sockfd, buf |-> buf, flags |-> flags, timeout |-> timeout],
           RecvArgs(sockfd, buf, flags, timeout))

Close(g, sockfd) ==
    Invoke(g, "Close", [sockfd |-> sockfd], CloseArgs(sockfd))

SetSockOpt(g, sockfd, level, opt, optionValue) ==
    Invoke(g, "SetSockOpt",
           [sockfd |-> sockfd, level |-> level, opt |-> opt,
            optionValue |-> optionValue],
           SetSockOptArgs(sockfd, level, opt, optionValue))

\* The device operations are the embedded Netdever's own methods.
NetConnect(g) == Invoke(g, "NetConnect", [none |-> TRUE], [none |-> TRUE])

NetDisconnect(g) == Invoke(g, "NetDisconnect", [none |-> TRUE], [none |-> TRUE])

GetHostByName(g, name) ==
    Invoke(g, "GetHostByName", [name |-> name], [name |-> name])

GetHardwareAddr(g) ==
    Invoke(g, "GetHardwareAddr", [none |-> TRUE], [none |-> TRUE])

GetIPAddr(g) == Invoke(g, "GetIPAddr", [none |-> TRUE], [none |-> TRUE])

\* The driver returns to the method goroutine g is in; the method converts
\* the result and returns to the runtime.  The runtime keeps the descriptor
\* a Socket call gave it.  An Accept leaves the caller's peer argument as
\* the caller passed it: the adapter hands the driver a SockAddr by value.
DriverReturn(g) ==
    /\ call[g].pc = "inDriver"
    /\ \E dret \in DriverOutcomes(call[g].op) :
         LET f == call[g]
             ret == AdapterResult(f.op, dret)
             base == [pc |-> "done", op |-> f.op,
                      ncalls |-> Len(f.dcalls), dret |-> dret, ret |-> ret]
         IN  /\ call' = [call EXCEPT ![g] =
                           IF f.op = "Accept"
                           THEN [pc |-> "done", op |-> f.op,
                                 ncalls |-> Len(f.dcalls), dret |-> dret,
                                 ret |-> ret, peer |-> f.args.addr]
                           ELSE base]
             /\ held' = IF f.op = "Socket"
                        THEN held \cup {[fd |-> ret.fd, h |-> dret.fd]}
                        ELSE held
    /\ UNCHANGED <<useLog, hookLog>>

----------------------------------------------------------------------------
Init ==
    /\ useLog = <<>>
    /\ hookLog = <<>>
    /\ call = [g \in Goroutines |-> Idle]
    /\ held = {}

Next ==
    \/ \E dev \in Drivers : UseNetdever(dev)
    \/ \E g \in Goroutines, in \in SocketInputs :
          Socket(g, in.family, in.sockType, in.protocol)
    \/ \E g \in Goroutines, sockfd \in Descriptors, addr \in NetAddrs :
          Bind(g, sockfd, addr)
    \/ \E g \in Goroutines, sockfd \in Descriptors, addr \in NetAddrs :
          Connect(g, sockfd, addr)
    \/ \E g \in Goroutines, sockfd \in Descriptors, backlog \in Backlogs :
          Listen(g, sockfd, backlog)
    \/ \E g \in Goroutines, sockfd \in Descriptors, peer \in NetAddrs :
          Accept(g, sockfd, peer)
    \/ \E g \in Goroutines, sockfd \in Descriptors, in \in SendInputs :
          Send(g, sockfd, in.buf, in.flags, in.timeout)
    \/ \E g \in Goroutines, sockfd \in Descriptors, in \in SendInputs :
          Recv(g, sockfd, in.buf, in.flags, in.timeout)
    \/ \E g \in Goroutines, sockfd \in Descriptors : Close(g, sockfd)
    \/ \E g \in Goroutines, sockfd \in Descriptors, in \in OptInputs :
          SetSockOpt(g, sockfd, in.level, in.opt, in.optionValue)
    \/ \E g \in Goroutines : NetConnect(g)
    \/ \E g \in Goroutines : NetDisconnect(g)
    \/ \E g \in Goroutines, name \in HostNames : GetHostByName(g, name)
    \/ \E g \in Goroutines : GetHardwareAddr(g)
    \/ \E g \in Goroutines : GetIPAddr(g)
    \/ \E g \in Goroutines : DriverReturn(g)

Spec == Init /\ [][Next]_vars

----------------------------------------------------------------------------
\* Properties

InDriver(g) == call[g].pc = "inDriver"
Done(g) == call[g].pc = "done"

\* The one driver call of the method goroutine g is in.
DCall(g) == call[g].dcalls[1]

\* Same bit pattern in a machine word.
SameWord(x, y) == (x - y) % Pow2(WordBits) = 0

\* SockAddr's layout: port and ip in network byte order.
BigEndian16(p) == <<p \div 256, p % 256>>
PortOf(b) == b[1] * 256 + b[2]

\* The runtime-native form of a SockAddr (the direction the source lacks).
sockAddrToNetAddr(s) == [ip |-> s.ip, port |-> PortOf(s.port)]

\* The SockAddr that carries the port and address of a runtime address.
SockAddrOf(a) == SockAddr(BigEndian16(a.port), a.ip)

SockAddrSamples == DriverPeers \cup {SockAddrOf(a) : a \in NetAddrs}

\* C1: every fallible socket method returns exactly the error the driver
\* returned for that call: nil stays nil, an error stays the same error.
C1_ErrorForwarded ==
    \A g \in Goroutines :
        (Done(g) /\ call[g].op \in SocketOps) =>
            call[g].ret.err = call[g].dret.err

\* C1 witness: a Bind has returned after the driver failed with EINVAL,
\* while another method has returned after the driver succeeded.
C1_Witness ==
    \E g, h \in Goroutines :
        /\ Done(g) /\ call[g].op = "Bind" /\ call[g].dret.err = "EINVAL"
        /\ Done(h) /\ call[h].op \in SocketOps /\ call[h].dret.err = NoErr

\* C2 (as claimed): a SockAddr converted to the runtime-native form and
\* back through netAddrToSockAddr is the same SockAddr.
C2_RoundTrip ==
    \A g \in Goroutines :
        (InDriver(g) /\ call[g].op \in {"Bind", "Connect", "Accept"}) =>
            \A s \in SockAddrSamples :
                call[g].args.addr = sockAddrToNetAddr(s) =>
                    DCall(g).args.addr = s

\* C3 (as claimed): Bind and Connect hand the driver the port and address
\* of the runtime address, and different runtime addresses reach the
\* driver as different SockAddr values.
C3_AddrDelivered ==
    /\ \A g \in Goroutines :
           (InDriver(g) /\ call[g].op \in {"Bind", "Connect"}) =>
               DCall(g).args.addr = SockAddrOf(call[g].args.addr)
    /\ \A g, h \in Goroutines :
           ( /\ InDriver(g) /\ call[g].op \in {"Bind", "Connect"}
             /\ InDriver(h) /\ call[h].op \in {"Bind", "Connect"}
             /\ call[g].args.addr # call[h].args.addr ) =>
               DCall(g).args.addr # DCall(h).args.addr

\* C4: Accept forwards the descriptor it was given, and whatever the driver
\* returns, Accept returns descriptor 0 and the driver's error.
C4_AcceptPlaceholder ==
    \A g \in Goroutines :
        /\ (InDriver(g) /\ call[g].op = "Accept") =>
               /\ Len(call[g].dcalls) = 1
               /\ DCall(g).op = "Accept"
               /\ SameWord(DCall(g).args.sockfd, call[g].args.sockfd)
        /\ (Done(g) /\ call[g].op = "Accept") =>
               /\ call[g].ret.fd = 0
               /\ call[g].ret.err = call[g].dret.err

\* C4 witness: an Accept has returned after the driver accepted a peer.
C4_Witness ==
    \E g \in Goroutines :
        Done(g) /\ call[g].op = "Accept" /\ call[g].dret.err = NoErr

\* C5: Socket always calls the driver, with family, type and protocol
\* numerically equal to the codes it was given, and a rejection is the
\* driver's.
C5_CodesPassThrough ==
    \A g \in Goroutines :
        /\ (InDriver(g) /\ call[g].op = "Socket") =>
               /\ Len(call[g].dcalls) = 1
               /\ DCall(g).op = "Socket"
               /\ DCall(g).args.family = call[g].args.family
               /\ DCall(g).args.sockType = call[g].args.sockType
               /\ DCall(g).args.protocol = call[g].args.protocol
        /\ (Done(g) /\ call[g].op = "Socket") =>
               (call[g].ret.err # NoErr => call[g].ret.err = call[g].dret.err)

\* C5 witness: Socket is inside the driver with codes no driver supports
\* (negative family, type 255, the largest protocol number).
C5_Witness ==
    \E g \in Goroutines :
        /\ InDriver(g) /\ call[g].op = "Socket"
        /\ call[g].args.family < 0
        /\ call[g].args.sockType = 255
        /\ call[g].args.protocol = MaxInt

\* C6: a descriptor the adapter returned from Socket reaches the driver, in
\* every later method, as the handle the driver returned, and two driver
\* handles never share a descriptor.
C6_HandleLossless ==
    /\ \A g \in Goroutines :
           (InDriver(g) /\ call[g].op \in SocketOps \ {"Socket"}) =>
               \A p \in held :
                   p.fd = call[g].args.sockfd => DCall(g).args.sockfd = p.h
    /\ \A p, q \in held : p.h # q.h => p.fd # q.fd

\* C6 witness: both a negative and a positive driver handle are held, and
\* a method is inside the driver with the descriptor of the negative one.
C6_Witness ==
    \E g \in Goroutines, p, q \in held :
        /\ p.h < 0 /\ q.h > 0
        /\ InDriver(g) /\ call[g].op \in SocketOps \ {"Socket"}
        /\ call[g].args.sockfd = p.fd

\* C7: SetSockOpt hands the driver the caller's option value itself, and
\* the level and option name it was given.
C7_OptionPassThrough ==
    \A g \in Goroutines :
        (InDriver(g) /\ call[g].op = "SetSockOpt") =>
            /\ DCall(g).args.optionValue = call[g].args.optionValue
            /\ DCall(g).args.level = call[g].args.level
            /\ DCall(g).args.opt = call[g].args.opt

\* C7 witness: SetSockOpt is inside the driver with a driver-specific
\* value, a negative level and the largest option name.
C7_Witness ==
    \E g \in Goroutines :
        /\ InDriver(g) /\ call[g].op = "SetSockOpt"
        /\ call[g].args.optionValue = "struct{keepalive}"
        /\ call[g].args.level < 0

\* C8 (as claimed): after an Accept in which the driver succeeded, the
\* caller's peer argument holds the address of the peer the driver accepted.
C8_PeerDelivered ==
    \A g \in Goroutines :
        (Done(g) /\ call[g].op = "Accept" /\ call[g].dret.err = NoErr) =>
            call[g].peer = sockAddrToNetAddr(call[g].dret.peer)

\* C9: the hook is called once per UseNetdever, with an adapter holding the
\* driver UseNetdever was given, and every call on a published adapter
\* reaches the driver of the UseNetdever call that published it.
C9_OneDriver ==
    /\ Len(hookLog) = Len(useLog)
    /\ \A i \in 1..Len(hookLog) : hookLog[i].Netdever = useLog[i]
    /\ \A g \in Goroutines :
           InDriver(g) =>
               \E i \in 1..Len(hookLog) :
                   /\ call[g].w = hookLog[i]
                   /\ \A k \in 1..Len(call[g].dcalls) :
                          call[g].dcalls[k].dev = useLog[i]

\* C9 witness: after UseNetdever, a device operation and a socket
\* operation are inside the driver at once.
C9_Witness ==
    \E g, h \in Goroutines :
        /\ InDriver(g) /\ call[g].op \in DeviceOps
        /\ InDriver(h) /\ call[h].op \in SocketOps

\* The state part of C10.
C10_OneCallEach ==
    \A g \in Goroutines :
        /\ (InDriver(g) /\ call[g].op \in SocketOps) =>
               /\ Len(call[g].dcalls) = 1
               /\ DCall(g).op = call[g].op
               /\ DCall(g).dev = call[g].w.Netdever
        /\ (InDriver(g) /\ call[g].op \in {"Send", "Recv"}) =>
               /\ DCall(g).args.buf = call[g].args.buf
               /\ DCall(g).args.flags = call[g].args.flags
               /\ DCall(g).args.timeout = call[g].args.timeout
        /\ (InDriver(g) /\ call[g].op = "Listen") =>
               DCall(g).args.backlog = call[g].args.backlog
        /\ (Done(g) /\ call[g].op \in SocketOps) => call[g].ncalls = 1
        /\ (Done(g) /\ call[g].op \in {"Send", "Recv"}) =>
               call[g].ret.n = call[g].dret.n

\* The step part of C10: no step changes an adapter already published, nor
\* the adapter a call in progress uses.
C10_AdapterKept ==
    /\ \A i \in 1..Len(hookLog) :
           i <= Len(hookLog') /\ hookLog'[i] = hookLog[i]
    /\ \A g \in Goroutines :
           (InDriver(g) /\ call'[g].pc = "inDriver") => call'[g].w = call[g].w

\* C10: every socket method makes exactly one driver call, to the method of
\* the same name, with buffer, flags, timeout and backlog as given, returns
\* the driver's byte count, and leaves the adapter's driver reference alone.
C10_Stateless == []C10_OneCallEach /\ [][C10_AdapterKept]_vars

\* C10 witness: two goroutines are inside the driver at once, one in Send
\* with a buffer and a timeout, one in Listen with a backlog, after an
\* earlier Socket call has returned.
C10_Witness ==
    \E g, h \in Goroutines :
        /\ InDriver(g) /\ call[g].op = "Send" /\ call[g].args.timeout > 0
        /\ InDriver(h) /\ call[h].op = "Listen" /\ call[h].args.backlog > 0
        /\ held # {}

====
